---- MODULE Spec2Model ----
(***************************************************************************)
(* A model of wrfy/cli.py: the docker clean-up commands (image pull,       *)
(* image rm_dangling, image rm_matching, container killall, rm_stopped,    *)
(* rmv_dangling, scrub, rm_matching, doctor) and the glob / regular        *)
(* expression matcher they share.                                          *)
(*                                                                         *)
(* Each command is modelled by the body of its function: the click         *)
(* decorators are taken to pass config and the options through unchanged,  *)
(* and scrub to call the three bodies it names.  util, check, Image and    *)
(* Container are modelled by what their callers need of them.              *)
(*                                                                         *)
(* Strings that are matched are sequences of one-character strings.        *)
(***************************************************************************)
EXTENDS Integers, Sequences, FiniteSets, TLC

\* ------------------------------------------------------------------------
\* Bounds
\* ------------------------------------------------------------------------
\* longest pattern enumerated for the matcher
MaxPatLen == 2
\* longest source iterator enumerated for the matcher
MaxItems == 2

\* ------------------------------------------------------------------------
\* Strings
\* ------------------------------------------------------------------------
web_latest == <<"w", "e", "b", ":", "l", "a", "t", "e", "s", "t">>
webapp_1 == <<"w", "e", "b", "a", "p", "p", ":", "1">>
other_2 == <<"o", "t", "h", "e", "r", ":", "2">>

\* ord(c) of the characters that occur in names
Ord(c) ==
    CASE c = "!" -> 33 [] c = "*" -> 42 [] c = "." -> 46 [] c = "0" -> 48
      [] c = "1" -> 49 [] c = "2" -> 50 [] c = ":" -> 58 [] c = "?" -> 63
      [] c = "[" -> 91 [] c = "]" -> 93 [] c = "^" -> 94 [] c = "a" -> 97
      [] c = "b" -> 98 [] c = "d" -> 100 [] c = "e" -> 101 [] c = "h" -> 104
      [] c = "l" -> 108 [] c = "o" -> 111 [] c = "p" -> 112 [] c = "r" -> 114
      [] c = "s" -> 115 [] c = "t" -> 116 [] c = "w" -> 119

\* s < t for Python strings
RECURSIVE StrLess(_, _)
StrLess(s, t) ==
    IF t = <<>> THEN FALSE
    ELSE IF s = <<>> THEN TRUE
    ELSE IF Head(s) = Head(t) THEN StrLess(Tail(s), Tail(t))
    ELSE Ord(Head(s)) < Ord(Head(t))

\* all sequences over S of length at most n
SeqsUpTo(S, n) == UNION {[1..k -> S] : k \in 0..n}

\* ------------------------------------------------------------------------
\* re.compile and re.match on the pattern syntax { literal . * ^ \Z [set] }
\* ------------------------------------------------------------------------
\* one parsed element of a pattern
Item(k, cs, star) == [k |-> k, cs |-> cs, star |-> star]

\* sre_parse on the characters ^ . * and literals.  A `*' with nothing
\* before it, or after `^', is "nothing to repeat"; a `*' after a `*' is
\* "multiple repeat".  Both raise re.error.
RECURSIVE re_parse(_, _, _)
re_parse(pattern, i, items) ==
    IF i > Len(pattern) THEN [ok |-> TRUE, items |-> items]
    ELSE LET c == pattern[i] IN
         IF c = "^" THEN re_parse(pattern, i + 1, Append(items, Item("bol", {}, FALSE)))
         ELSE IF c = "." THEN re_parse(pattern, i + 1, Append(items, Item("any", {}, FALSE)))
         ELSE IF c = "*" THEN
              IF items = <<>> \/ items[Len(items)].k = "bol" \/ items[Len(items)].star
              THEN [ok |-> FALSE, items |-> <<>>]
              ELSE re_parse(pattern, i + 1,
                            [items EXCEPT ![Len(items)].star = TRUE])
         ELSE re_parse(pattern, i + 1, Append(items, Item("set", {c}, FALSE)))

re_compile(pattern) == re_parse(pattern, 1, <<>>)

\* does one character satisfy a one-character element
Accepts(item, ch) ==
    CASE item.k = "any" -> TRUE
      [] item.k = "set" -> ch \in item.cs
      [] item.k = "nset" -> ch \notin item.cs
      [] OTHER -> FALSE

\* can items[i..] match s starting at position pos (nothing is required of
\* what follows the match)
RECURSIVE MatchHere(_, _, _, _)
MatchHere(items, i, s, pos) ==
    IF i > Len(items) THEN TRUE
    ELSE LET it == items[i] IN
         IF it.k = "bol" THEN pos = 1 /\ MatchHere(items, i + 1, s, pos)
         ELSE IF it.k = "eos" THEN pos = Len(s) + 1 /\ MatchHere(items, i + 1, s, pos)
         ELSE IF it.star
              THEN \/ MatchHere(items, i + 1, s, pos)
                   \/ pos <= Len(s) /\ Accepts(it, s[pos]) /\ MatchHere(items, i, s, pos + 1)
         ELSE pos <= Len(s) /\ Accepts(it, s[pos]) /\ MatchHere(items, i + 1, s, pos + 1)

\* re_match with a fault: the whole string must match
re_fullmatch(r, s) == MatchHere(Append(r, Item("eos", {}, FALSE)), 1, s, 1)

\* r.match(s): the compiled pattern matches at the start of s
re_match(r, s) == MatchHere(r, 1, s, 1)

\* ------------------------------------------------------------------------
\* fnmatch.fnmatch
\* ------------------------------------------------------------------------
\* index of the `]' that closes the bracket opened before position i, or
\* Len(pat) + 1 when there is none (the scan of fnmatch.translate)
RECURSIVE ScanBracket(_, _)
ScanBracket(pat, j) ==
    IF j <= Len(pat) /\ pat[j] # "]" THEN ScanBracket(pat, j + 1) ELSE j

BracketEnd(pat, i) ==
    LET j1 == IF i <= Len(pat) /\ pat[i] = "!" THEN i + 1 ELSE i
        j2 == IF j1 <= Len(pat) /\ pat[j1] = "]" THEN j1 + 1 ELSE j1
    IN  ScanBracket(pat, j2)

Chars(s) == {s[k] : k \in 1..Len(s)}

\* fnmatch.translate: `*' is any run, `?' any character, [seq] a set,
\* [!seq] its complement, an unclosed `[' a literal
RECURSIVE fn_translate(_, _, _)
fn_translate(pat, i, items) ==
    IF i > Len(pat) THEN Append(items, Item("eos", {}, FALSE))
    ELSE LET c == pat[i] IN
         IF c = "*" THEN
              IF items # <<>> /\ items[Len(items)].k = "any" /\ items[Len(items)].star
              THEN fn_translate(pat, i + 1, items)
              ELSE fn_translate(pat, i + 1, Append(items, Item("any", {}, TRUE)))
         ELSE IF c = "?" THEN fn_translate(pat, i + 1, Append(items, Item("any", {}, FALSE)))
         ELSE IF c = "[" THEN
              LET j == BracketEnd(pat, i + 1) IN
              IF j > Len(pat)
              THEN fn_translate(pat, i + 1, Append(items, Item("set", {"["}, FALSE)))
              ELSE LET stuff == SubSeq(pat, i + 1, j - 1) IN
                   IF stuff = <<"!">>
                   THEN fn_translate(pat, j + 1, Append(items, Item("any", {}, FALSE)))
                   ELSE IF stuff[1] = "!"
                   THEN fn_translate(pat, j + 1,
                            Append(items, Item("nset", Chars(Tail(stuff)), FALSE)))
                   ELSE fn_translate(pat, j + 1,
                            Append(items, Item("set", Chars(stuff), FALSE)))
         ELSE fn_translate(pat, i + 1, Append(items, Item("set", {c}, FALSE)))

\* fnmatch(name, pat) (os.path.normcase is the identity on POSIX)
fnmatch(name, pat) == re_match(fn_translate(pat, 1, <<>>), name)

\* ------------------------------------------------------------------------
\* match_iterator_glob_or_regexp
\* ------------------------------------------------------------------------
\* A Python object as far as attribute access goes: `has' is the set of its
\* attributes; reading any other attribute raises AttributeError.
Namespace(regex, pattern) ==
    [has |-> {"regex", "pattern"}, regex |-> regex, pattern |-> pattern]

\* a Config (class Config sets verbose and force and nothing else) as `args'
ConfigObj(config) == [has |-> {"verbose", "force"}, regex |-> FALSE, pattern |-> <<>>]

\* a bool (config.force) as `args': it has neither attribute
BoolObj(b) == [has |-> {}, regex |-> FALSE, pattern |-> <<>>]

HasAttr(obj, name) == name \in obj.has

\* what list(generator) gives: the objects yielded, how many objects of the
\* source iterator were consumed, and the exception that ended it, if any
Yield(out, consumed, error, printed) ==
    [out |-> out, consumed |-> consumed, error |-> error, printed |-> printed]

\* matcher_regex with a fault: full match instead of match at the start
matcher_fullmatch(r, s) == re_fullmatch(r, s)

\* def matcher(s): return r.match(s)
matcher_regex(r, s) == re_match(r, s)

\* def matcher(s): return fnmatch(s, args.pattern)
matcher_glob(args, s) == fnmatch(s, args.pattern)

\* for obj in iterator: match = apply_fn(obj); if matcher(match): yield obj
RECURSIVE match_loop(_, _, _, _, _, _, _)
match_loop(args, r, iterator, apply_fn, i, out, printed) ==
    IF i > Len(iterator) THEN Yield(out, Len(iterator), "none", printed)
    ELSE LET obj == iterator[i]
             match == apply_fn[obj]
         IN  IF args.regex
             THEN match_loop(args, r, iterator, apply_fn, i + 1,
                             IF matcher_regex(r, match) THEN Append(out, obj) ELSE out,
                             printed)
             ELSE IF ~HasAttr(args, "pattern")
             THEN Yield(out, i, "AttributeError", printed)
             ELSE match_loop(args, r, iterator, apply_fn, i + 1,
                             IF matcher_glob(args, match) THEN Append(out, obj) ELSE out,
                             printed)

\* list(match_iterator_glob_or_regexp(args, iterator, apply_fn)): the body
\* runs when the list is built, the set-up first and then the loop
match_iterator_glob_or_regexp(args, iterator, apply_fn) ==
    IF ~HasAttr(args, "regex") THEN Yield(<<>>, 0, "AttributeError", FALSE)
    ELSE IF args.regex
         THEN IF ~HasAttr(args, "pattern") THEN Yield(<<>>, 0, "AttributeError", TRUE)
              ELSE LET r == re_compile(args.pattern) IN
                   IF ~r.ok THEN Yield(<<>>, 0, "re.error", TRUE)
                   ELSE match_loop(args, r.items, iterator, apply_fn, 1, <<>>, TRUE)
         ELSE match_loop(args, <<>>, iterator, apply_fn, 1, <<>>, FALSE)

\* ------------------------------------------------------------------------
\* The container runtime behind docker.Client
\* ------------------------------------------------------------------------
\* Every image, container and volume the runtime may hold.  Ids and names
\* are strings too.  B carries two tags; A and D are untagged; C3 was
\* created from web:latest when that tag still named D.
ImageUniverse ==
    { [id |-> <<"A">>, tags |-> <<>>],
      [id |-> <<"B">>, tags |-> <<webapp_1, web_latest>>],
      [id |-> <<"D">>, tags |-> <<>>] }

ContainerUniverse ==
    { [id |-> <<"C", "1">>, name |-> <<"w", "e", "b", "1">>, image |-> <<"B">>, tag |-> web_latest],
      [id |-> <<"C", "2">>, name |-> <<"o", "l", "d">>, image |-> <<"A">>, tag |-> <<>>],
      [id |-> <<"C", "3">>, name |-> <<"w", "e", "b", "0">>, image |-> <<"D">>, tag |-> web_latest] }

VolumeUniverse ==
    { [name |-> <<"v", "1">>, mounts |-> {}],
      [name |-> <<"v", "2">>, mounts |-> {<<"C", "1">>}] }

\* the position of each resource in the runtime's own numbering; a listing
\* call returns the resources in the order perm gives to these positions
Slot(key) ==
    CASE key \in {<<"A">>, <<"C", "1">>, <<"v", "1">>} -> 1
      [] key \in {<<"B">>, <<"C", "2">>, <<"v", "2">>} -> 2
      [] OTHER -> 3

Perms == {<<1, 2, 3>>, <<1, 3, 2>>, <<2, 1, 3>>, <<2, 3, 1>>, <<3, 1, 2>>, <<3, 2, 1>>}

\* the runtime holds a set of images, a set of containers with their status,
\* and a set of volumes
RuntimeStates ==
    { [images |-> im, containers |-> co, volumes |-> vo] :
        im \in SUBSET ImageUniverse,
        co \in { { [id |-> c.id, name |-> c.name, image |-> c.image, tag |-> c.tag,
                    running |-> st[c.id] = "running"] :
                   c \in {x \in ContainerUniverse : st[x.id] # "absent"} } :
                 st \in [{c.id : c \in ContainerUniverse} -> {"absent", "running", "stopped"}] },
        vo \in SUBSET VolumeUniverse }

\* the elements of a set as a list in the runtime's listing order; key[x] is
\* the id or name of x
RECURSIVE ListBy(_, _, _, _)
ListBy(S, key, perm, k) ==
    IF k > 3 THEN <<>>
    ELSE LET here == {x \in S : perm[Slot(key[x])] = k} IN
         (IF here = {} THEN <<>> ELSE <<CHOOSE x \in here : TRUE>>)
             \o ListBy(S, key, perm, k + 1)

ListImages(rt, perm) == ListBy(rt.images, [x \in rt.images |-> x.id], perm, 1)
ListContainers(rt, perm) == ListBy(rt.containers, [x \in rt.containers |-> x.id], perm, 1)
ListVolumes(rt, perm) == ListBy(rt.volumes, [x \in rt.volumes |-> x.name], perm, 1)

\* cli.remove_image(id)
remove_image(rt, id) == [rt EXCEPT !.images = {i \in @ : i.id # id}]

\* cli.remove_image(tag): the tag is dropped, and the image with its last tag
DropTag(tags, tag) == SelectSeq(tags, LAMBDA t : t # tag)

remove_image_tag(rt, tag) ==
    [rt EXCEPT !.images =
        { [id |-> i.id, tags |-> DropTag(i.tags, tag)] :
            i \in {x \in @ : DropTag(x.tags, tag) # <<>> \/ x.tags = <<>>} }]

\* cli.remove_container(id)
remove_container(rt, id) == [rt EXCEPT !.containers = {c \in @ : c.id # id}]

\* cli.kill(id): the container stays, stopped
kill(rt, id) ==
    [rt EXCEPT !.containers =
        {IF c.id = id THEN [c EXCEPT !.running = FALSE] ELSE c : c \in @}]

\* cli.remove_volume(name)
remove_volume(rt, name) == [rt EXCEPT !.volumes = {v \in @ : v.name # name}]

\* one call of a write operation of the client: it raises, and changes
\* nothing, when the runtime refuses it (fails holds the positions of the
\* resources it refuses to touch)
Call(rt, op, target, fails) ==
    IF Slot(target) \in fails THEN [rt |-> rt, ok |-> FALSE]
    ELSE [ok |-> TRUE,
          rt |-> CASE op = "remove_image" -> remove_image(rt, target)
                   [] op = "remove_image_tag" -> remove_image_tag(rt, target)
                   [] op = "remove_container" -> remove_container(rt, target)
                   [] op = "kill" -> kill(rt, target)
                   [] op = "remove_volume" -> remove_volume(rt, target)
                   [] OTHER -> rt]

WriteOps == {"remove_image", "remove_image_tag", "remove_container", "kill", "remove_volume"}

\* ------------------------------------------------------------------------
\* util, check, Image and Container (what cli.py calls)
\* ------------------------------------------------------------------------
\* one observable step of a command: a log line, the plan, the prompt, a
\* call of the client.  cmd is the function whose body makes the step.
Ev(op, cmd, arg, ok) == [op |-> op, cmd |-> cmd, arg |-> arg, ok |-> ok]

\* what a command or a loop leaves: the runtime, the steps made, and the
\* exception that ended it ("none" for a normal return)
Res(rt, trace, error) == [rt |-> rt, trace |-> trace, error |-> error]

\* the answers a user may type at the prompt
Answers == {"y", "n"}

\* util.confirm_action(background, question): shows the plan, asks, and is
\* true only for an affirmative answer
confirm_action(answer) == answer = "y"

confirm_steps(cmd, background, answer) ==
    <<Ev("plan", cmd, background, TRUE), Ev("prompt", cmd, answer, TRUE)>>

\* util.log_any_error(lambda: cli.op(target)): the call is made, and an
\* exception it raises is logged and goes no further
log_any_error(rt, cmd, op, target, fails) ==
    LET c == Call(rt, op, target, fails) IN
    Res(c.rt,
        <<Ev(op, cmd, target, c.ok)>>
            \o (IF c.ok THEN <<>> ELSE <<Ev("log_error", cmd, target, TRUE)>>),
        "none")

\* cli.op(target) called directly: an exception it raises propagates
direct_call(rt, cmd, op, target, fails) ==
    LET c == Call(rt, op, target, fails) IN
    Res(c.rt, <<Ev(op, cmd, target, c.ok)>>, IF c.ok THEN "none" ELSE "APIError")

\* str(container) and repr(container): the display form of a container
Repr(c) == c.name

\* the containers that refer to an image
used_by(rt, image, perm) ==
    SelectSeq(ListContainers(rt, perm), LAMBDA c : c.image = image.id)

\* check.untagged_images_with_usage(cli): each untagged image with the
\* containers that use it
untagged_images_with_usage(rt, perm) ==
    LET untagged == SelectSeq(ListImages(rt, perm), LAMBDA i : i.tags = <<>>) IN
    [k \in 1..Len(untagged) |->
        [image |-> untagged[k], used_by |-> used_by(rt, untagged[k], perm)]]

\* check.stopped_containers(cli)
stopped_containers(rt, perm) == SelectSeq(ListContainers(rt, perm), LAMBDA c : ~c.running)

\* check.dangling_volumes(cli): the volumes no container mounts
dangling_volumes(rt, perm) ==
    SelectSeq(ListVolumes(rt, perm),
              LAMBDA v : v.mounts \cap {c.id : c \in rt.containers} = {})

\* Container.all(cli): the running containers
Container_all(rt, perm) == SelectSeq(ListContainers(rt, perm), LAMBDA c : c.running)

\* Image.all(cli)
Image_all(rt, perm) == ListImages(rt, perm)

RECURSIVE Flatten(_)
Flatten(ss) == IF ss = <<>> THEN <<>> ELSE Head(ss) \o Flatten(Tail(ss))

\* Image.repotags(cli): every tag of every image
Image_repotags(rt, perm) ==
    LET l == Image_all(rt, perm) IN Flatten([k \in 1..Len(l) |-> l[k].tags])

\* check.check_latest_image(cli): the running containers whose tag now
\* names another image than the one they run
check_latest_image(rt, perm) ==
    SelectSeq(ListContainers(rt, perm),
              LAMBDA c : /\ c.running
                         /\ c.tag # <<>>
                         /\ \E i \in rt.images :
                               c.tag \in Chars(i.tags) /\ i.id # c.image)

\* ------------------------------------------------------------------------
\* sorted()
\* ------------------------------------------------------------------------
\* insert x into the sorted list l after every element not greater than it
RECURSIVE Insert(_, _, _)
Insert(l, x, key) ==
    IF l = <<>> THEN <<x>>
    ELSE IF StrLess(key[x], key[Head(l)]) THEN <<x>> \o l
    ELSE <<Head(l)>> \o Insert(Tail(l), x, key)

RECURSIVE SortFrom(_, _, _, _)
SortFrom(l, key, i, acc) ==
    IF i > Len(l) THEN acc ELSE SortFrom(l, key, i + 1, Insert(acc, l[i], key))

\* sorted(l, key=key): stable, ascending
sorted(l, key) == SortFrom(l, key, 1, <<>>)

Ids(l) == [k \in 1..Len(l) |-> l[k].id]
Names(l) == [k \in 1..Len(l) |-> l[k].name]
Reprs(l) == [k \in 1..Len(l) |-> Repr(l[k])]
ReprKey(l) == [c \in Chars(l) |-> Repr(c)]
SelfKey(l) == [t \in Chars(l) |-> t]

\* ------------------------------------------------------------------------
\* The commands of cli.py.  inp is what the environment decides during one
\* command: the listing order of the runtime (perm), the answer typed at
\* each prompt (answer) and the write operations the runtime refuses (fails).
\* ------------------------------------------------------------------------
\* cli = Client(), the first statement of every command
Start(cmd) == <<Ev("Client", cmd, <<>>, TRUE)>>

\* the steps of the gate `not config.force and not util.confirm_action(..)':
\* confirm_action is only called when force is off
gate_steps(config, cmd, background, answer) ==
    IF config.force THEN <<>> ELSE confirm_steps(cmd, background, answer)

\* image pull: every tag is pulled, in sorted order, when there is any
pull_all_images(rt, config, inp) ==
    LET _tags == Image_repotags(rt, inp.perm)
        tags == sorted(_tags, SelfKey(_tags))
    IN  IF Len(_tags) = 0 THEN Res(rt, Start("pull_all_images"), "none")
        ELSE Res(rt,
                 Start("pull_all_images") \o Flatten([k \in 1..Len(tags) |->
                            <<Ev("log_action", "pull_all_images", tags[k], TRUE),
                              Ev("pull", "pull_all_images", tags[k], TRUE)>>]),
                 "none")

\* rmi_dangling_candidates with a fault: images in use are taken too
rmi_dangling_candidates_all(rt, perm) ==
    LET usage == untagged_images_with_usage(rt, perm) IN
    [to_remove |-> [k \in 1..Len(usage) |-> usage[k].image], issues |-> <<>>]

\* rmi_dangling, the first loop: an untagged image in use is logged, the
\* others are collected
rmi_dangling_candidates(rt, perm) ==
    LET usage == untagged_images_with_usage(rt, perm)
        inuse == SelectSeq(usage, LAMBDA u : Len(u.used_by) # 0)
        free == SelectSeq(usage, LAMBDA u : Len(u.used_by) = 0)
    IN  [to_remove |-> [k \in 1..Len(free) |-> free[k].image],
         issues |-> [k \in 1..Len(inuse) |->
                        Ev("log_issue", "rmi_dangling", inuse[k].image.id, TRUE)]]

RECURSIVE rmi_dangling_loop(_, _, _, _, _)
rmi_dangling_loop(rt, to_remove, i, fails, trace) ==
    IF i > Len(to_remove) THEN Res(rt, trace, "none")
    ELSE LET image == to_remove[i]
             r == log_any_error(rt, "rmi_dangling", "remove_image", image.id, fails)
         IN  rmi_dangling_loop(r.rt, to_remove, i + 1, fails,
                 trace \o <<Ev("log_action", "rmi_dangling", image.id, TRUE)>> \o r.trace)

\* image rm_dangling
rmi_dangling(rt, config, inp) ==
    LET c == rmi_dangling_candidates(rt, inp.perm)
        to_remove == c.to_remove
        background == Ids(to_remove)
        answer == inp.answer["rmi_dangling"]
    IN  IF Len(to_remove) = 0 THEN Res(rt, Start("rmi_dangling") \o c.issues, "none")
        ELSE IF ~config.force /\ ~confirm_action(answer)
        THEN Res(rt, Start("rmi_dangling") \o c.issues \o confirm_steps("rmi_dangling", background, answer), "none")
        ELSE rmi_dangling_loop(rt, to_remove, 1, inp.fails,
                 Start("rmi_dangling") \o c.issues \o gate_steps(config, "rmi_dangling", background, answer))

\* def all_image_tags(): every tag of every image, image by image
all_image_tags(rt, perm) ==
    LET l == Image_all(rt, perm) IN Flatten([k \in 1..Len(l) |-> l[k].tags])

RECURSIVE rmi_matching_loop(_, _, _, _, _)
rmi_matching_loop(rt, to_remove, i, fails, trace) ==
    IF i > Len(to_remove) THEN Res(rt, trace, "none")
    ELSE LET tag == to_remove[i]
             r == log_any_error(rt, "rmi_matching", "remove_image_tag", tag, fails)
         IN  rmi_matching_loop(r.rt, to_remove, i + 1, fails,
                 trace \o <<Ev("log_action", "rmi_matching", tag, TRUE)>> \o r.trace)

\* image rm_matching --tag tag [--regex]: the matcher is given config, not
\* tag and regex
rmi_matching(rt, config, tag, regex, inp) ==
    LET tags == all_image_tags(rt, inp.perm)
        m == match_iterator_glob_or_regexp(ConfigObj(config), tags, SelfKey(tags))
        to_remove == m.out
        background == sorted(to_remove, SelfKey(to_remove))
        answer == inp.answer["rmi_matching"]
    IN  IF m.error # "none" THEN Res(rt, Start("rmi_matching"), m.error)
        ELSE IF Len(to_remove) = 0 THEN Res(rt, Start("rmi_matching"), "none")
        ELSE IF ~config.force /\ ~confirm_action(answer)
        THEN Res(rt, Start("rmi_matching") \o confirm_steps("rmi_matching", background, answer), "none")
        ELSE rmi_matching_loop(rt, to_remove, 1, inp.fails,
                 Start("rmi_matching") \o gate_steps(config, "rmi_matching", background, answer))

RECURSIVE kill_all_loop(_, _, _, _, _)
kill_all_loop(rt, to_kill, i, fails, trace) ==
    IF i > Len(to_kill) THEN Res(rt, trace, "none")
    ELSE LET container == to_kill[i]
             r == log_any_error(rt, "kill_all", "kill", container.id, fails)
         IN  kill_all_loop(r.rt, to_kill, i + 1, fails,
                 trace \o <<Ev("log_action", "kill_all", Repr(container), TRUE)>> \o r.trace)

\* container killall
kill_all(rt, config, inp) ==
    LET all == Container_all(rt, inp.perm)
        to_kill == sorted(all, ReprKey(all))
        background == Reprs(to_kill)
        answer == inp.answer["kill_all"]
    IN  IF Len(to_kill) = 0 THEN Res(rt, Start("kill_all"), "none")
        ELSE IF ~config.force /\ ~confirm_action(answer)
        THEN Res(rt, Start("kill_all") \o confirm_steps("kill_all", background, answer), "none")
        ELSE kill_all_loop(rt, to_kill, 1, inp.fails,
                 Start("kill_all") \o gate_steps(config, "kill_all", background, answer))

RECURSIVE rm_stopped_loop(_, _, _, _, _)
rm_stopped_loop(rt, to_remove, i, fails, trace) ==
    IF i > Len(to_remove) THEN Res(rt, trace, "none")
    ELSE LET container == to_remove[i]
             r == log_any_error(rt, "rm_stopped", "remove_container", container.id, fails)
         IN  rm_stopped_loop(r.rt, to_remove, i + 1, fails,
                 trace \o <<Ev("log_action", "rm_stopped", Repr(container), TRUE)>> \o r.trace)

\* rm_stopped with a fault: the empty candidate list is not special
rm_stopped_no_empty_check(rt, config, inp) ==
    LET to_remove == stopped_containers(rt, inp.perm)
        background == Reprs(to_remove)
        answer == inp.answer["rm_stopped"]
    IN  IF ~config.force /\ ~confirm_action(answer)
        THEN Res(rt, Start("rm_stopped") \o confirm_steps("rm_stopped", background, answer), "none")
        ELSE rm_stopped_loop(rt, to_remove, 1, inp.fails,
                 Start("rm_stopped") \o gate_steps(config, "rm_stopped", background, answer))

\* rm_stopped
rm_stopped(rt, config, inp) ==
    LET to_remove == stopped_containers(rt, inp.perm)
        background == Reprs(to_remove)
        answer == inp.answer["rm_stopped"]
    IN  IF Len(to_remove) = 0 THEN Res(rt, Start("rm_stopped"), "none")
        ELSE IF ~config.force /\ ~confirm_action(answer)
        THEN Res(rt, Start("rm_stopped") \o confirm_steps("rm_stopped", background, answer), "none")
        ELSE rm_stopped_loop(rt, to_remove, 1, inp.fails,
                 Start("rm_stopped") \o gate_steps(config, "rm_stopped", background, answer))

\* rmv_dangling, the loop: cli.remove_volume is called directly, so the
\* first refusal ends the loop and the command
RECURSIVE rmv_dangling_loop(_, _, _, _, _)
rmv_dangling_loop(rt, to_remove, i, fails, trace) ==
    IF i > Len(to_remove) THEN Res(rt, trace, "none")
    ELSE LET volume == to_remove[i]
             r == direct_call(rt, "rmv_dangling", "remove_volume", volume.name, fails)
             t == trace \o <<Ev("log_action", "rmv_dangling", volume.name, TRUE)>> \o r.trace
         IN  IF r.error # "none" THEN Res(r.rt, t, r.error)
             ELSE rmv_dangling_loop(r.rt, to_remove, i + 1, fails, t)

\* rmv_dangling with a fault: the volumes are removed without asking
rmv_dangling_no_gate(rt, args, inp) ==
    LET to_remove == dangling_volumes(rt, inp.perm) IN
    IF Len(to_remove) = 0 THEN Res(rt, Start("rmv_dangling"), "none")
    ELSE rmv_dangling_loop(rt, to_remove, 1, inp.fails, Start("rmv_dangling"))

\* rmv_dangling
rmv_dangling(rt, args, inp) ==
    LET to_remove == dangling_volumes(rt, inp.perm)
        background == Names(to_remove)
        answer == inp.answer["rmv_dangling"]
    IN  IF Len(to_remove) = 0 THEN Res(rt, Start("rmv_dangling"), "none")
        ELSE IF ~args.force /\ ~confirm_action(answer)
        THEN Res(rt, Start("rmv_dangling") \o confirm_steps("rmv_dangling", background, answer), "none")
        ELSE rmv_dangling_loop(rt, to_remove, 1, inp.fails,
                 Start("rmv_dangling") \o gate_steps(args, "rmv_dangling", background, answer))

\* then(r, next): the statement after one that left r; an exception skips it
Then(r, next) ==
    IF r.error # "none" THEN r ELSE Res(next.rt, r.trace \o next.trace, next.error)

\* scrub with a fault: the images are cleaned before the containers
scrub_images_first(rt, config, inp) ==
    LET r1 == rmi_dangling(rt, config, inp)
        r2 == Then(r1, rm_stopped(r1.rt, config, inp))
    IN  Then(r2, rmv_dangling(r2.rt, config, inp))

\* scrub
scrub(rt, config, inp) ==
    LET r1 == rm_stopped(rt, config, inp)
        r2 == Then(r1, rmi_dangling(r1.rt, config, inp))
    IN  Then(r2, rmv_dangling(r2.rt, config, inp))

RECURSIVE rm_matching_loop(_, _, _, _, _)
rm_matching_loop(rt, to_remove, i, fails, trace) ==
    IF i > Len(to_remove) THEN Res(rt, trace, "none")
    ELSE LET container == to_remove[i]
             r == log_any_error(rt, "rm_matching", "remove_container", container.id, fails)
         IN  rm_matching_loop(r.rt, to_remove, i + 1, fails,
                 trace \o <<Ev("log_action", "rm_matching", Repr(container), TRUE)>> \o r.trace)

\* rm_matching: the matcher is given config.force, a bool
rm_matching(rt, config, inp) ==
    LET stopped == stopped_containers(rt, inp.perm)
        m == match_iterator_glob_or_regexp(BoolObj(config.force), stopped,
                                           [c \in Chars(stopped) |-> c.name])
        to_remove == m.out
        background == Reprs(sorted(to_remove, ReprKey(to_remove)))
        answer == inp.answer["rm_matching"]
    IN  IF m.error # "none" THEN Res(rt, Start("rm_matching"), m.error)
        ELSE IF Len(to_remove) = 0 THEN Res(rt, Start("rm_matching"), "none")
        ELSE IF ~config.force /\ ~confirm_action(answer)
        THEN Res(rt, Start("rm_matching") \o confirm_steps("rm_matching", background, answer), "none")
        ELSE rm_matching_loop(rt, to_remove, 1, inp.fails,
                 Start("rm_matching") \o gate_steps(config, "rm_matching", background, answer))

\* doctor with a fault: the dangling volumes found are removed as well
doctor_removing(rt, config, inp) ==
    LET r == rmv_dangling_no_gate(rt, config, inp) IN
    Res(r.rt,
        r.trace \o <<Ev("check_latest_image", "doctor",
                         Ids(check_latest_image(rt, inp.perm)), TRUE)>>,
        r.error)

\* doctor: the four checks, each reported
doctor(rt, config, inp) ==
    LET usage == untagged_images_with_usage(rt, inp.perm) IN
    Res(rt,
        Start("doctor") \o
        << Ev("check_latest_image", "doctor", Ids(check_latest_image(rt, inp.perm)), TRUE),
           Ev("check_dangling_volumes", "doctor", Names(dangling_volumes(rt, inp.perm)), TRUE),
           Ev("check_untagged_images", "doctor",
              [k \in 1..Len(usage) |-> usage[k].image.id], TRUE),
           Ev("check_stopped_containers", "doctor",
              Ids(stopped_containers(rt, inp.perm)), TRUE) >>,
        "none")

\* ------------------------------------------------------------------------
\* State
\* ------------------------------------------------------------------------
VARIABLES
    rt,      \* the runtime: images, containers, volumes
    config,  \* the Config object: verbose, force
    run,     \* the last command run: its name and arguments, the runtime
             \* before it, the steps it made, the exception that ended it
    sel      \* one direct use of the matcher: arguments and result

vars == <<rt, config, run, sel>>

NoRun == [cmd |-> "none", pre |-> [images |-> {}, containers |-> {}, volumes |-> {}],
          trace |-> <<>>, error |-> "none", tag |-> <<>>, regex |-> FALSE]

NoSel == [args |-> Namespace(FALSE, <<>>), iterator |-> <<>>, apply_fn |-> "identity",
          called |-> FALSE, res |-> Yield(<<>>, 0, "none", FALSE)]

\* the sets of positions whose resources the runtime may refuse to touch
FailSets == SUBSET (1..3)

\* the commands that ask before they act
Gated == {"rmi_dangling", "rmi_matching", "kill_all", "rm_stopped", "rmv_dangling",
          "rm_matching"}

\* the answers to enumerate: none is read when force is set
AnswersOf(c) == IF c.force THEN {"n"} ELSE Answers

\* the --tag and --regex given to image rm_matching on the command line
CliArgs ==
    { [tag |-> <<"w", "e", "b", ":", "*">>, regex |-> FALSE],
      [tag |-> <<"^", "w", "e", "b">>, regex |-> TRUE],
      [tag |-> <<"*">>, regex |-> TRUE] }

\* the state after the group callback wrfy(config, verbose, force)
Init ==
    /\ rt \in RuntimeStates
    /\ config \in [verbose : {FALSE}, force : BOOLEAN]
    /\ run = NoRun
    /\ sel = NoSel

\* a command has run (it runs once in a process, from the state the group
\* callback left: run.cmd = "none")
Ran(cmd, r, tag, regex) ==
    /\ rt' = r.rt
    /\ run' = [cmd |-> cmd, pre |-> rt, trace |-> r.trace, error |-> r.error,
               tag |-> tag, regex |-> regex]
    /\ UNCHANGED <<config, sel>>

Inp(perm, a, fails) == [perm |-> perm, answer |-> [c \in Gated |-> a], fails |-> fails]

PullAllImages ==
    /\ run.cmd = "none"
    /\ \E perm \in Perms :
        Ran("pull_all_images", pull_all_images(rt, config, Inp(perm, "n", {})), <<>>, FALSE)

RmiDangling ==
    /\ run.cmd = "none"
    /\ \E perm \in Perms, a \in AnswersOf(config), fails \in FailSets :
        Ran("rmi_dangling", rmi_dangling(rt, config, Inp(perm, a, fails)), <<>>, FALSE)

RmiMatching ==
    /\ run.cmd = "none"
    /\ \E perm \in Perms, a \in AnswersOf(config), fails \in FailSets, cl \in CliArgs :
        Ran("rmi_matching",
            rmi_matching(rt, config, cl.tag, cl.regex, Inp(perm, a, fails)),
            cl.tag, cl.regex)

KillAll ==
    /\ run.cmd = "none"
    /\ \E perm \in Perms, a \in AnswersOf(config), fails \in FailSets :
        Ran("kill_all", kill_all(rt, config, Inp(perm, a, fails)), <<>>, FALSE)

RmStopped ==
    /\ run.cmd = "none"
    /\ \E perm \in Perms, a \in AnswersOf(config), fails \in FailSets :
        Ran("rm_stopped", rm_stopped(rt, config, Inp(perm, a, fails)), <<>>, FALSE)

RmvDangling ==
    /\ run.cmd = "none"
    /\ \E perm \in Perms, a \in AnswersOf(config), fails \in FailSets :
        Ran("rmv_dangling", rmv_dangling(rt, config, Inp(perm, a, fails)), <<>>, FALSE)

Scrub ==
    /\ run.cmd = "none"
    /\ \E perm \in Perms, a1, a2, a3 \in AnswersOf(config), fails \in FailSets :
        Ran("scrub",
            scrub(rt, config,
                  [perm |-> perm, fails |-> fails,
                   answer |-> [c \in Gated |-> CASE c = "rm_stopped" -> a1
                                                  [] c = "rmi_dangling" -> a2
                                                  [] OTHER -> a3]]),
            <<>>, FALSE)

RmMatching ==
    /\ run.cmd = "none"
    /\ \E perm \in Perms, a \in AnswersOf(config), fails \in FailSets :
        Ran("rm_matching", rm_matching(rt, config, Inp(perm, a, fails)), <<>>, FALSE)

Doctor ==
    /\ run.cmd = "none"
    /\ \E perm \in Perms :
        Ran("doctor", doctor(rt, config, Inp(perm, "n", {})), <<>>, FALSE)

\* the process ends and wrfy is started again, with any flags
Invoke ==
    /\ run.cmd # "none"
    /\ run' = NoRun
    /\ config' \in [verbose : {FALSE}, force : BOOLEAN]
    /\ UNCHANGED <<rt, sel>>

Next ==
    \/ Invoke
    \/ PullAllImages
    \/ RmiDangling
    \/ RmiMatching
    \/ KillAll
    \/ RmStopped
    \/ RmvDangling
    \/ Scrub
    \/ RmMatching
    \/ Doctor

Spec == Init /\ [][Next]_vars

\* ------------------------------------------------------------------------
\* The matcher on its own: args carries regex and pattern
\* ------------------------------------------------------------------------
KeyPool == {web_latest, webapp_1, other_2}

RegexAlphabet == {"w", "o", ".", "*", "^"}
GlobAlphabet == {"w", "o", "*", "?", "[", "]", "!"}

\* the key functions tried: the identity, and one that gives each item the
\* next item's text
ApplyFn(name) ==
    IF name = "identity" THEN [k \in KeyPool |-> k]
    ELSE [k \in KeyPool |-> CASE k = web_latest -> webapp_1
                              [] k = webapp_1 -> other_2
                              [] OTHER -> web_latest]

Iterators == SeqsUpTo(KeyPool, MaxItems) \cup {<<web_latest, webapp_1, other_2>>}

\* longer patterns tried besides all the short ones
RegexExtra == { <<"^", "w", "e", "b">>, <<"w", "e", "b">>, <<"e", "b">>,
                <<"w", ".", "*", "1">>, <<".", "*", ":", "2">> }
GlobExtra == { <<"w", "e", "b", ":", "*">>, <<"w", "e", "b">>, <<"[", "w", "]", "*">>,
               <<"[", "!", "w", "]", "*">>, <<"*", ":", "?">>, web_latest }

ArgsSet ==
    {Namespace(TRUE, p) : p \in SeqsUpTo(RegexAlphabet, MaxPatLen) \cup RegexExtra}
        \cup
    {Namespace(FALSE, p) : p \in SeqsUpTo(GlobAlphabet, MaxPatLen) \cup GlobExtra}

InitMatch ==
    /\ rt = [images |-> {}, containers |-> {}, volumes |-> {}]
    /\ config = [verbose |-> FALSE, force |-> FALSE]
    /\ run = NoRun
    /\ sel \in {[NoSel EXCEPT !.args = a, !.iterator = it, !.apply_fn = f] :
                  a \in ArgsSet, it \in Iterators, f \in {"identity", "next"}}

\* list(match_iterator_glob_or_regexp(args, iterator, apply_fn))
Select ==
    /\ ~sel.called
    /\ sel' = [sel EXCEPT !.called = TRUE,
                          !.res = match_iterator_glob_or_regexp(
                                      sel.args, sel.iterator, ApplyFn(sel.apply_fn))]
    /\ UNCHANGED <<rt, config, run>>

NextMatch == Select

SpecMatch == InitMatch /\ [][NextMatch]_vars

\* ------------------------------------------------------------------------
\* Properties
\* ------------------------------------------------------------------------
Tr == run.trace

\* the steps of the last command with one of the given operations
Steps(ops) == SelectSeq(Tr, LAMBDA e : e.op \in ops)
Args(l) == [k \in 1..Len(l) |-> l[k].arg]
Range(l) == {l[k] : k \in 1..Len(l)}

\* the targets of the write operations attempted, as a list and as a set
Attempted == Args(Steps(WriteOps))
AttemptedSet == Range(Attempted)

\* an image of the runtime state s that some container of s refers to
InUse(s, i) == \E c \in s.containers : c.image = i.id
Untagged(s) == {i \in s.images : Len(i.tags) = 0}

\* what each command is meant to act on, from the runtime state s before it
Candidates(cmd, s) ==
    CASE cmd = "rmi_dangling" -> {i.id : i \in {x \in Untagged(s) : ~InUse(s, x)}}
      [] cmd = "kill_all" -> {c.id : c \in {x \in s.containers : x.running}}
      [] cmd = "rm_stopped" -> {c.id : c \in {x \in s.containers : ~x.running}}
      [] cmd = "rmv_dangling" ->
            {v.name : v \in {x \in s.volumes :
                                x.mounts \cap {c.id : c \in s.containers} = {}}}
      [] OTHER -> {}

\* the tags of the runtime state s that pattern selects: the whole tag under
\* a glob, a start of the tag under a regular expression
TagsMatching(s, pattern, regex) ==
    {t \in UNION {Range(i.tags) : i \in s.images} :
        IF regex THEN re_compile(pattern).ok /\ re_match(re_compile(pattern).items, t)
        ELSE fnmatch(t, pattern)}

\* C1: a write operation is invoked only when force is set or the prompt of
\* its command was answered affirmatively, and a declined prompt is the last
\* step of its command, which then returns normally
C1_WritesNeedConsent ==
    /\ \A i \in 1..Len(Tr) :
          Tr[i].op \in WriteOps =>
              \/ config.force
              \/ \E j \in 1..(i - 1) :
                    Tr[j].op = "prompt" /\ Tr[j].cmd = Tr[i].cmd /\ Tr[j].arg = "y"
    /\ \A j \in 1..Len(Tr) :
          (Tr[j].op = "prompt" /\ Tr[j].arg # "y") =>
              /\ \A i \in (j + 1)..Len(Tr) : Tr[i].cmd # Tr[j].cmd
              /\ run.cmd = Tr[j].cmd => run.error = "none"

\* C1, its case: without force, one stage of scrub was declined and another,
\* confirmed, has written
C1_Witness ==
    /\ run.cmd = "scrub" /\ ~config.force
    /\ \E j \in 1..Len(Tr) : Tr[j].op = "prompt" /\ Tr[j].arg = "n"
    /\ \E i \in 1..Len(Tr) : Tr[i].op \in WriteOps /\ Tr[i].ok

\* C2: once a destructive command executes, every candidate is attempted
\* exactly once, every failure is logged against its item and the command
\* does not abort
C2_ErrorsIsolated ==
    (run.cmd \in Gated /\ Len(Attempted) > 0) =>
        /\ run.error = "none"
        /\ AttemptedSet = Candidates(run.cmd, run.pre)
        /\ Len(Attempted) = Cardinality(AttemptedSet)
        /\ Len(Steps({"log_error"})) = Len(SelectSeq(Steps(WriteOps), LAMBDA e : ~e.ok))

\* C3: image rm_matching, forced, attempts a remove on exactly the tags that
\* match the pattern in the selected mode
C3_MatchingRemovesMatches ==
    (run.cmd = "rmi_matching" /\ config.force
        /\ (run.regex => re_compile(run.tag).ok)) =>
        AttemptedSet = TagsMatching(run.pre, run.tag, run.regex)

\* C5: with --regex and an invalid pattern, the command ends with the
\* invalid-pattern error, before any prompt and any write
C5_InvalidPatternError ==
    (run.cmd = "rmi_matching" /\ run.regex /\ ~re_compile(run.tag).ok) =>
        /\ run.error = "re.error"
        /\ Len(Steps({"plan", "prompt"} \cup WriteOps)) = 0

C7_ExecutesInSortedOrder ==
    run.cmd \in Gated =>
        LET shown == Args(Steps({"log_action"})) IN
        \A i \in 1..(Len(shown) - 1) : ~StrLess(shown[i + 1], shown[i])

\* the place of a stage in scrub
StageRank(cmd) ==
    CASE cmd = "rm_stopped" -> 1 [] cmd = "rmi_dangling" -> 2 [] cmd = "rmv_dangling" -> 3
      [] OTHER -> 0

C9_DoctorReadOnly ==
    run.cmd = "doctor" =>
        /\ rt = run.pre
        /\ run.error = "none"
        /\ [k \in 1..Len(Tr) |-> Tr[k].op] =
              <<"Client", "check_latest_image", "check_dangling_volumes",
                "check_untagged_images", "check_stopped_containers">>

\* C9, its case: doctor has run where every check finds something
C9_Witness ==
    /\ run.cmd = "doctor"
    /\ \A k \in 2..5 : Len(Tr[k].arg) > 0

\* C10: rmi_dangling logs every untagged image in use and never plans or
\* attempts its removal; the removal set is exactly the untagged images
\* that no container refers to
C10_OnlyUnusedUntaggedRemoved ==
    run.cmd = "rmi_dangling" =>
        LET inuse == {i.id : i \in {x \in Untagged(run.pre) : InUse(run.pre, x)}}
            free == Candidates("rmi_dangling", run.pre)
        IN  /\ Range(Args(Steps({"log_issue"}))) = inuse
            /\ AttemptedSet \subseteq free
            /\ \A e \in Range(Steps({"plan"})) : Range(e.arg) = free
            /\ (config.force \/ \E e \in Range(Steps({"prompt"})) : e.arg = "y") =>
                  AttemptedSet = free

\* C10, its case: a forced rmi_dangling that logged an image in use and
\* removed another
C10_Witness ==
    /\ run.cmd = "rmi_dangling" /\ config.force
    /\ Len(Steps({"log_issue"})) > 0
    /\ \E e \in Range(Steps({"remove_image"})) : e.ok

\* a glob without brackets, read directly: `*' stands for any run of
\* characters, `?' for one character, anything else for itself, and the
\* whole of s must be used up
RECURSIVE GlobSpec(_, _)
GlobSpec(p, s) ==
    IF p = <<>> THEN s = <<>>
    ELSE IF Head(p) = "*"
         THEN GlobSpec(Tail(p), s) \/ (s # <<>> /\ GlobSpec(p, Tail(s)))
    ELSE s # <<>> /\ (Head(p) = "?" \/ Head(p) = Head(s)) /\ GlobSpec(Tail(p), Tail(s))

\* a regular expression of literals and dots after an optional `^', read
\* directly: it must fit the start of s
PlainRegex(p) ==
    \A i \in 1..Len(p) : p[i] # "*" /\ (p[i] = "^" => i = 1)

RegexSpec(p, s) ==
    LET q == IF p # <<>> /\ Head(p) = "^" THEN Tail(p) ELSE p IN
    /\ Len(q) <= Len(s)
    /\ \A i \in 1..Len(q) : q[i] = "." \/ q[i] = s[i]

\* should key be selected under args
ShouldMatch(args, key) ==
    IF args.regex
    THEN IF PlainRegex(args.pattern) THEN RegexSpec(args.pattern, key)
         ELSE re_match(re_compile(args.pattern).items, key)
    ELSE IF "[" \notin Chars(args.pattern) THEN GlobSpec(args.pattern, key)
         ELSE fnmatch(key, args.pattern)

\* C4: the matcher yields, in the order of the iterator, exactly the items
\* whose key matches: the whole key under a glob (so `*' yields every item),
\* a start of the key under a regular expression
C4_YieldsMatchingSubsequence ==
    (sel.called /\ (sel.args.regex => re_compile(sel.args.pattern).ok)) =>
        /\ sel.res.error = "none"
        /\ sel.res.out = SelectSeq(sel.iterator,
                             LAMBDA x : ShouldMatch(sel.args, ApplyFn(sel.apply_fn)[x]))
        /\ (~sel.args.regex /\ sel.args.pattern = <<"*">>) => sel.res.out = sel.iterator

\* C4, its case: ^web as a regular expression over web:latest, webapp:1,
\* other:2 has yielded the first two
C4_Witness ==
    /\ sel.called /\ sel.args.regex /\ sel.args.pattern = <<"^", "w", "e", "b">>
    /\ sel.apply_fn = "identity"
    /\ sel.iterator = <<web_latest, webapp_1, other_2>>
    /\ sel.res.out = <<web_latest, webapp_1>>

\* the matcher given an invalid regular expression raises re.error before
\* it takes anything from the iterator
MatcherRejectsInvalidPattern ==
    (sel.called /\ sel.args.regex /\ ~re_compile(sel.args.pattern).ok) =>
        sel.res = Yield(<<>>, 0, "re.error", TRUE)

====
